---------------------------- MODULE Spec2Model ----------------------------
(***************************************************************************)
(* A model of the ConnectedDotPlot component (the d3 implementation in     *)
(* src/src/ConnectedDotPlot.tsx, lines 514-893): the data-to-geometry      *)
(* pipeline (sortData, the render effect, calculateLabelSkip, drawElements,*)
(* drawAxis) and the zoom handler.                                         *)
(*                                                                         *)
(* Four specifications share the variables:                                *)
(*   SortSpec    applies sortData to every bounded row sequence;           *)
(*   FormatSpec  applies formatNumber to bounded decimal numbers;          *)
(*   Spec        is the component: host events, the render effect, zoom;   *)
(*   HoverSpec   is the component with the pointer handlers of its marks,  *)
(*               on fewer host inputs.                                     *)
(***************************************************************************)
EXTENDS Integers, Sequences, FiniteSets, TLC

\* ------------------------------------------------------------------ bounds

\* Longest row sequence handed to sortData under SortSpec.
MaxRows == 4

\* ------------------------------------------------------- JavaScript numbers
\* A JavaScript number that may be NaN or infinite. -0 is identified with 0:
\* the code only tests it with ===, >=, % and arithmetic, where they agree.

Fin(n) == [k |-> "fin", v |-> n]

NaN == [k |-> "nan", v |-> 0]

PosInf == [k |-> "inf", v |-> 0]

NegInf == [k |-> "ninf", v |-> 0]

IsFin(x) == x.k = "fin"

\* x - y.
JsSub(x, y) ==
  CASE x.k = "nan" \/ y.k = "nan" -> NaN
    [] x.k = "fin" /\ y.k = "fin" -> Fin(x.v - y.v)
    [] x.k = "fin" -> IF y.k = "inf" THEN NegInf ELSE PosInf
    [] y.k = "fin" -> x
    [] x.k = y.k -> NaN
    [] OTHER -> x

\* x || 0 : NaN and 0 are falsy.
OrZero(x) == IF x.k = "nan" \/ (x.k = "fin" /\ x.v = 0) THEN Fin(0) ELSE x

\* ------------------------------------------------------------------- cells
\* A cell of the host's tabular result. row[i]?.value is undefined for an
\* absent cell; a text cell holds a non-numeric string.

NumCell(n) == [t |-> "num", n |-> n, s |-> ""]

StrCell(s) == [t |-> "str", n |-> 0, s |-> s]

AbsentCell == [t |-> "absent", n |-> 0, s |-> ""]

\* Number(cell?.value): Number(undefined) and Number("abc") are NaN.
Number(cell) == IF cell.t = "num" THEN Fin(cell.n) ELSE NaN

\* A row is <<category cell, period-one cell, period-two cell>>.
Row(c, a, b) == <<c, a, b>>

\* -------------------------------------------------------- number formatting
\* A finite decimal number m * 10^e (m >= 0), negated if neg: the values,
\* differences and tick values handed to formatNumber, kept exact.

Dec(neg, m, e) == [neg |-> neg, m |-> m, e |-> e]

RECURSIVE Pow10(_)
Pow10(n) == IF n <= 0 THEN 1 ELSE 10 * Pow10(n - 1)

\* The number of decimal digits of n >= 0.
RECURSIVE NumDigits(_)
NumDigits(n) == IF n < 10 THEN 1 ELSE 1 + NumDigits(n \div 10)

DigitChar(d) == <<"0", "1", "2", "3", "4", "5", "6", "7", "8", "9">>[d + 1]

\* The decimal digits of n >= 0 as text.
RECURSIVE DigitString(_)
DigitString(n) ==
  IF n < 10 THEN DigitChar(n) ELSE DigitString(n \div 10) \o DigitChar(n % 10)

RECURSIVE Zeros(_)
Zeros(n) == IF n <= 0 THEN "" ELSE "0" \o Zeros(n - 1)

\* Math.abs(value) >= 10^t: m * 10^e has NumDigits(m) + e digits before the
\* point.
AbsAtLeast(value, t) == value.m # 0 /\ NumDigits(value.m) + value.e > t

\* value / 10^t
DivPow10(value, t) == [value EXCEPT !.e = value.e - t]

\* The text Number.prototype.toPrecision gives the three digits n
\* (100..999) with the decimal exponent e: exponential notation when
\* e < -6 or e >= 3, fixed notation otherwise.
PrecisionText(n, e) ==
  LET d1 == DigitChar(n \div 100)
      d2 == DigitChar((n \div 10) % 10)
      d3 == DigitChar(n % 10)
  IN CASE e < 0 - 6 -> d1 \o "." \o d2 \o d3 \o "e-" \o DigitString(0 - e)
       [] e >= 3 -> d1 \o "." \o d2 \o d3 \o "e+" \o DigitString(e)
       [] e = 2 -> d1 \o d2 \o d3
       [] e = 1 -> d1 \o d2 \o "." \o d3
       [] e = 0 -> d1 \o "." \o d2 \o d3
       [] OTHER -> "0." \o Zeros(0 - (e + 1)) \o d1 \o d2 \o d3

\* x.toPrecision(3): the three-digit n and the exponent e with n * 10^(e-2)
\* nearest to x. When x is half-way between two n in decimal, the double
\* that holds it can lie on either side: tieUp is the side it lies on.
toPrecision(x, tieUp) ==
  IF x.m = 0 THEN "0.00"
  ELSE LET digits == NumDigits(x.m)
           cut == digits - 3
           q == IF cut > 0 THEN x.m \div Pow10(cut) ELSE x.m * Pow10(0 - cut)
           r == IF cut > 0 THEN x.m % Pow10(cut) ELSE 0
           half == 5 * Pow10(cut - 1)
           n == IF cut > 0 /\ (r > half \/ (r = half /\ tieUp)) THEN q + 1 ELSE q
           e == digits - 1 + x.e
       IN (IF x.neg THEN "-" ELSE "")
            \o (IF n = 1000 THEN PrecisionText(100, e + 1) ELSE PrecisionText(n, e))

\* formatNumber without the billions branch, as the chart variant's
\* formatNumber has it.
formatNumberNoBillions(value, tieUp) ==
  IF AbsAtLeast(value, 6) THEN toPrecision(DivPow10(value, 6), tieUp) \o "M"
  ELSE IF AbsAtLeast(value, 3) THEN toPrecision(DivPow10(value, 3), tieUp) \o "K"
  ELSE toPrecision(value, tieUp)

\* formatNumber(value)
formatNumber(value, tieUp) ==
  IF AbsAtLeast(value, 9) THEN toPrecision(DivPow10(value, 9), tieUp) \o "B"
  ELSE IF AbsAtLeast(value, 6) THEN toPrecision(DivPow10(value, 6), tieUp) \o "M"
  ELSE IF AbsAtLeast(value, 3) THEN toPrecision(DivPow10(value, 3), tieUp) \o "K"
  ELSE toPrecision(value, tieUp)

\* ------------------------------------------------------------------ sorting

SortingStyles ==
  {"Original", "Ascending", "Descending", "DifferenceAscending", "DifferenceDescending"}

\* compareFn with the Ascending comparator written (x - y) || -1: a tie puts
\* its first argument first.
compareFnTieFirst(style, a, b) ==
  CASE style = "Ascending" ->
         LET d == JsSub(Number(a[2]), Number(b[2])) IN
           IF d.k = "nan" \/ d.v = 0 THEN Fin(-1) ELSE d
    [] style = "Descending" -> JsSub(Number(b[2]), Number(a[2]))
    [] style = "DifferenceAscending" ->
         JsSub(JsSub(Number(a[3]), Number(a[2])), JsSub(Number(b[3]), Number(b[2])))
    [] style = "DifferenceDescending" ->
         JsSub(JsSub(Number(b[3]), Number(b[2])), JsSub(Number(a[3]), Number(a[2])))
    [] OTHER -> Fin(0)

\* compareFn with the difference policies comparing Math.abs of the
\* difference, as handleSort of the chart variant does.
compareFnAbsolute(style, a, b) ==
  LET abs(x) == IF x.k = "fin" /\ x.v < 0 THEN Fin(0 - x.v) ELSE x IN
  CASE style = "Ascending" -> JsSub(Number(a[2]), Number(b[2]))
    [] style = "Descending" -> JsSub(Number(b[2]), Number(a[2]))
    [] style = "DifferenceAscending" ->
         JsSub(abs(JsSub(Number(a[3]), Number(a[2]))), abs(JsSub(Number(b[3]), Number(b[2]))))
    [] style = "DifferenceDescending" ->
         JsSub(abs(JsSub(Number(b[3]), Number(b[2]))), abs(JsSub(Number(a[3]), Number(a[2]))))
    [] OTHER -> Fin(0)

\* The comparator sortData hands to Array.prototype.sort for each policy.
compareFn(style, a, b) ==
  CASE style = "Ascending" -> JsSub(Number(a[2]), Number(b[2]))
    [] style = "Descending" -> JsSub(Number(b[2]), Number(a[2]))
    [] style = "DifferenceAscending" ->
         JsSub(JsSub(Number(a[3]), Number(a[2])), JsSub(Number(b[3]), Number(b[2])))
    [] style = "DifferenceDescending" ->
         JsSub(JsSub(Number(b[3]), Number(b[2])), JsSub(Number(a[3]), Number(a[2])))
    [] OTHER -> Fin(0)

\* SortCompare of ECMAScript: a NaN comparator result counts as +0.
SortCompare(style, a, b) ==
  LET v == compareFn(style, a, b) IN IF v.k = "nan" THEN 0 ELSE v.v

Reverse(s) == [i \in 1..Len(s) |-> s[Len(s) + 1 - i]]

\* s with the element at index from written over the one at index to,
\* the elements between them not shifted.
MoveToOverwrite(s, from, to) == [i \in 1..Len(s) |-> IF i = to THEN s[from] ELSE s[i]]

\* s with the element at index from moved to index to (to <= from).
MoveTo(s, from, to) ==
  [i \in 1..Len(s) |->
     IF i < to \/ i > from THEN s[i] ELSE IF i = to THEN s[from] ELSE s[i - 1]]

\* Straight insertion sort: a later element moves left past its neighbour
\* only while it compares strictly below it.
RECURSIVE InsertPos(_, _, _)
InsertPos(style, s, j) ==
  IF j > 1 /\ SortCompare(style, s[j], s[j - 1]) < 0
    THEN InsertPos(style, MoveTo(s, j, j - 1), j - 1)
    ELSE s

RECURSIVE InsertionFrom(_, _, _)
InsertionFrom(style, s, i) ==
  IF i > Len(s) THEN s ELSE InsertionFrom(style, InsertPos(style, s, i), i + 1)

InsertionSort(style, s) == InsertionFrom(style, s, 2)

\* TimSort on an array shorter than its minimum run length (64): one
\* natural run (CountAndMakeRun), then binary insertion of the rest.
RECURSIVE RunLength(_, _, _, _)
RunLength(style, s, isDescending, idx) ==
  IF idx > Len(s) THEN idx - 1
  ELSE LET order == SortCompare(style, s[idx], s[idx - 1]) IN
       IF (isDescending /\ order >= 0) \/ (~isDescending /\ order < 0)
         THEN idx - 1
         ELSE RunLength(style, s, isDescending, idx + 1)

RECURSIVE BinarySearch(_, _, _, _, _)
BinarySearch(style, s, pivot, left, right) ==
  IF left >= right THEN left
  ELSE LET mid == left + ((right - left) \div 2) IN
       IF SortCompare(style, pivot, s[mid]) < 0
         THEN BinarySearch(style, s, pivot, left, mid)
         ELSE BinarySearch(style, s, pivot, mid + 1, right)

RECURSIVE BinaryInsertionFrom(_, _, _)
BinaryInsertionFrom(style, s, start) ==
  IF start > Len(s) THEN s
  ELSE BinaryInsertionFrom(style,
         MoveTo(s, start, BinarySearch(style, s, s[start], 1, start)), start + 1)

TimSort(style, s) ==
  IF Len(s) < 2 THEN s
  ELSE LET isDescending == SortCompare(style, s[2], s[1]) < 0
           run == RunLength(style, s, isDescending, 3)
           made == IF isDescending
                     THEN [i \in 1..Len(s) |-> IF i <= run THEN s[run + 1 - i] ELSE s[i]]
                     ELSE s
       IN BinaryInsertionFrom(style, made, run + 1)

\* The sort algorithms a build can run the code on. With a consistent
\* comparator they agree (the sort is stable); with an inconsistent one
\* (a NaN result) the order is implementation-defined.
Engines == {"timsort", "insertion"}

\* array.sort(comparator of style) on engine e.
ArraySort(e, style, s) ==
  IF e = "timsort" THEN TimSort(style, s) ELSE InsertionSort(style, s)

\* sortData sorting the host's array itself, without the copy.
sortDataInPlace(e, data, style) ==
  IF style \in SortingStyles \ {"Original"}
    THEN [data |-> ArraySort(e, style, data), out |-> ArraySort(e, style, data),
          aliased |-> TRUE]
    ELSE [data |-> data, out |-> data, aliased |-> TRUE]

\* sortData(data, sortingStyle). data is the host's array after the call,
\* out the returned array, aliased whether it is the host's array itself.
sortData(e, data, style) ==
  LET sortedData == data IN   \* [...data]: a fresh copy
  IF style \in SortingStyles \ {"Original"}
    THEN [data |-> data, out |-> ArraySort(e, style, sortedData), aliased |-> FALSE]
    ELSE [data |-> data, out |-> data, aliased |-> TRUE]


\* --------------------------------------------------------- the render pass

\* margin (top, right, bottom) of the component function.
MarginTop == 20

MarginRight == 30

MarginBottom == 30

\* The label footprints handed to calculateLabelSkip.
XLabelSize == 50

YLabelSize == 20

Max(a, b) == IF a >= b THEN a ELSE b

Min(a, b) == IF a <= b THEN a ELSE b

\* Math.floor(availableSpace / labelSize) of calculateLabelSkip.
LabelsFit(axisLength, labelSize) ==
  (axisLength - MarginTop - MarginBottom) \div labelSize

\* Math.ceil(totalLabels / labelsFit): Infinity or NaN on labelsFit = 0,
\* zero or negative on labelsFit < 0.
calculateLabelSkip(axisLength, totalLabels, labelSize) ==
  LET labelsFit == LabelsFit(axisLength, labelSize) IN
  CASE labelsFit > 0 -> Fin((totalLabels + labelsFit - 1) \div labelsFit)
    [] labelsFit = 0 -> IF totalLabels = 0 THEN NaN ELSE PosInf
    [] OTHER -> Fin(0 - (totalLabels \div (0 - labelsFit)))

\* String(d[0]?.value).length: an absent cell prints as "undefined".
LabelLength(cell) ==
  CASE cell.t = "str" -> Len(cell.s)
    [] cell.t = "num" -> 1
    [] OTHER -> 9

RECURSIVE MaxOver(_, _, _)
MaxOver(s, i, acc) == IF i > Len(s) THEN acc ELSE MaxOver(s, i + 1, Max(acc, s[i]))

\* Math.min(40 + maxLabelLength * 8, 100), where Math.max() of no labels is
\* -Infinity.
LeftMargin(data) ==
  IF data = <<>> THEN NegInf
  ELSE Fin(Min(40 + 8 * MaxOver([i \in 1..Len(data) |-> LabelLength(data[i][1])], 2,
                                 LabelLength(data[1][1])), 100))

\* Number(cell?.value) || 0, a finite number.
NumberOrZero(cell) == OrZero(Number(cell)).v

\* d3.max(sortedData, d => Math.max(valueA, valueB)) ?? 0.
DomainMax(sortedData) ==
  IF sortedData = <<>> THEN 0
  ELSE MaxOver([i \in 1..Len(sortedData) |->
                  Max(NumberOrZero(sortedData[i][2]), NumberOrZero(sortedData[i][3]))],
               2, Max(NumberOrZero(sortedData[1][2]), NumberOrZero(sortedData[1][3])))

\* Array.from(new Set(sortedData.map(d => d[0]?.value))): the category
\* cells in order of first occurrence.
RECURSIVE UniqueFrom(_, _, _)
UniqueFrom(s, i, acc) ==
  IF i > Len(s) THEN acc
  ELSE UniqueFrom(s, i + 1,
         IF \E j \in 1..Len(acc) : acc[j] = s[i][1] THEN acc ELSE Append(acc, s[i][1]))

\* uniqueCategories without the Set: the category cell of every row.
UniqueCategoriesKeepAll(sortedData) == [i \in 1..Len(sortedData) |-> sortedData[i][1]]

UniqueCategories(sortedData) == UniqueFrom(sortedData, 1, <<>>)

\* uniqueCategories.indexOf(cell), zero-based.
CategoryIndex(uniqueCategories, cell) ==
  (CHOOSE j \in 1..Len(uniqueCategories) : uniqueCategories[j] = cell) - 1

\* The stroke drawElements gives a segment, with the first variant's
\* strict test: a zero difference gets the negative color.
StrokeStrict(x1, x2, positiveLineColor, negativeLineColor) ==
  IF x2 - x1 > 0 THEN positiveLineColor ELSE negativeLineColor

\* The stroke drawElements gives the segment from x1 to x2.
Stroke(x1, x2, positiveLineColor, negativeLineColor) ==
  IF x2 - x1 >= 0 THEN positiveLineColor ELSE negativeLineColor

\* lineData of drawElements with each segment's stroke: x1, x2 and y are
\* the data coordinates of a segment's ends.
LineMarks(sortedData, uniqueCategories, positiveLineColor, negativeLineColor) ==
  [i \in 1..Len(sortedData) |->
     LET x1 == NumberOrZero(sortedData[i][2])
         x2 == NumberOrZero(sortedData[i][3])
     IN [x1 |-> x1, x2 |-> x2,
         y |-> CategoryIndex(uniqueCategories, sortedData[i][1]),
         stroke |-> Stroke(x1, x2, positiveLineColor, negativeLineColor)]]

\* index % skip === 0 for a skip that may be infinite, NaN, zero or
\* negative (index is an array index, >= 0).
SkipKeeps(index, skip) ==
  CASE skip.k = "nan" -> FALSE
    [] skip.k \in {"inf", "ninf"} -> index = 0
    [] skip.v = 0 -> FALSE
    [] skip.v > 0 -> index % skip.v = 0
    [] OTHER -> index % (0 - skip.v) = 0

RECURSIVE FilterTicks(_, _, _, _)
FilterTicks(n, skip, i, acc) ==
  IF i >= n THEN acc
  ELSE FilterTicks(n, skip, i + 1, IF SkipKeeps(i, skip) THEN Append(acc, i) ELSE acc)

\* d3.range(0, n).filter((_, index) => index % skip === 0)
TickValues(n, skip) == FilterTicks(n, skip, 0, <<>>)

\* ------------------------------------------------------------- d3 scales

Abs(n) == IF n < 0 THEN 0 - n ELSE n

RECURSIVE GCD(_, _)
GCD(a, b) == IF b = 0 THEN a ELSE GCD(b, a % b)

\* The number n / d (d # 0) in lowest terms: the coordinates the scales
\* compute are kept exact.
Frac(n, d) ==
  LET g == GCD(Abs(n), Abs(d))
      sgn == IF d < 0 THEN 0 - 1 ELSE 1
  IN [k |-> "fin", n |-> (sgn * n) \div g, d |-> (sgn * d) \div g]

QNaN == [k |-> "nan", n |-> 0, d |-> 1]

QPosInf == [k |-> "inf", n |-> 0, d |-> 1]

QNegInf == [k |-> "ninf", n |-> 0, d |-> 1]

\* A Number of the render pass (Fin, NaN, PosInf, NegInf) as a coordinate.
ToQ(x) ==
  CASE x.k = "fin" -> Frac(x.v, 1)
    [] x.k = "nan" -> QNaN
    [] x.k = "inf" -> QPosInf
    [] OTHER -> QNegInf

QSub(x, y) == Frac(x.n * y.d - y.n * x.d, x.d * y.d)

QAdd(x, y) == Frac(x.n * y.d + y.n * x.d, x.d * y.d)

QMul(x, y) == Frac(x.n * y.n, x.d * y.d)

QLeq(x, y) == x.n * y.d <= y.n * x.d

\* normalize(a, b)(x) of d3-scale: (x - a) / (b - a), the constant 0.5 on
\* b = a, NaN as soon as a bound is not finite.
normalizeUnguarded(a, b, x) ==
  IF a.k # "fin" \/ b.k # "fin" \/ x.k # "fin" THEN QNaN
  ELSE IF QSub(b, a).n = 0 THEN QNaN
  ELSE LET w == QSub(b, a) u == QSub(x, a) IN Frac(u.n * w.d, u.d * w.n)

normalize(a, b, x) ==
  IF a.k # "fin" \/ b.k # "fin" \/ x.k # "fin" THEN QNaN
  ELSE IF QSub(b, a).n = 0 THEN Frac(1, 2)
  ELSE LET w == QSub(b, a) u == QSub(x, a) IN Frac(u.n * w.d, u.d * w.n)

\* interpolateNumber(a, b)(t) of d3-interpolate: a * (1 - t) + b * t.
interpolateNumber(a, b, t) ==
  LET times(x, f) ==    \* x * f for a finite factor f
        CASE x.k = "nan" -> QNaN
          [] x.k = "fin" -> QMul(x, f)
          [] f.n = 0 -> QNaN
          [] (x.k = "inf") = (f.n > 0) -> QPosInf
          [] OTHER -> QNegInf
      plus(x, y) ==
        CASE x.k = "nan" \/ y.k = "nan" -> QNaN
          [] x.k = "fin" /\ y.k = "fin" -> QAdd(x, y)
          [] x.k = "fin" -> y
          [] y.k = "fin" -> x
          [] x.k = y.k -> x
          [] OTHER -> QNaN
  IN IF t.k # "fin" THEN QNaN
     ELSE plus(times(a, QSub(Frac(1, 1), t)), times(b, t))

\* A d3.scaleLinear() with the domain and the range the render pass gives
\* it, its bounds as exact coordinates.
ScaleLinear(scale) ==
  [domain |-> <<Frac(scale.domain[1], 1), Frac(scale.domain[2], 1)>>,
   range |-> <<ToQ(scale.range[1]), ToQ(scale.range[2])>>]

\* scale(x): the screen coordinate of the domain value x.
ScaleApply(scale, x) ==
  interpolateNumber(scale.range[1], scale.range[2],
                    normalize(scale.domain[1], scale.domain[2], x))

\* scale.invert(y): the domain value drawn at the screen coordinate y.
ScaleInvert(scale, y) ==
  interpolateNumber(scale.domain[1], scale.domain[2],
                    normalize(scale.range[1], scale.range[2], y))

\* The zoom transform: k2 is twice the zoom factor k, tx and ty the
\* translation.
Transform(k2, tx, ty) == [k2 |-> k2, tx |-> tx, ty |-> ty]

Identity == Transform(2, 0, 0)

\* transform.invertX(x) and transform.invertY(y): (x - t) / k.
TransformInvert(k2, t, x) ==
  IF x.k # "fin" THEN x ELSE QMul(QSub(x, Frac(t, 1)), Frac(2, k2))

\* transform.rescaleX(scale): a copy of scale whose domain is the inverse
\* image of its range under the transform; the scale itself is not changed.
rescaleX(transform, scale) ==
  [scale EXCEPT !.domain =
     <<ScaleInvert(scale, TransformInvert(transform.k2, transform.tx, scale.range[1])),
       ScaleInvert(scale, TransformInvert(transform.k2, transform.tx, scale.range[2]))>>]

rescaleY(transform, scale) ==
  [scale EXCEPT !.domain =
     <<ScaleInvert(scale, TransformInvert(transform.k2, transform.ty, scale.range[1])),
       ScaleInvert(scale, TransformInvert(transform.k2, transform.ty, scale.range[2]))>>]

\* The component function's reading of the settings object ("" stands for
\* an undefined field, present = FALSE for an undefined settings object).
dotColorOne(st) ==
  IF st.present /\ st.dotColorOne # "" THEN st.dotColorOne ELSE "var(--dot-color-one)"

dotColorTwo(st) ==
  IF st.present /\ st.dotColorTwo # "" THEN st.dotColorTwo ELSE "var(--dot-color-two)"

positiveLineColor(st) ==
  IF st.present /\ st.positiveLineColor # "" THEN st.positiveLineColor
  ELSE "var(--positive-line-color)"

negativeLineColor(st) ==
  IF st.present /\ st.negativeLineColor # "" THEN st.negativeLineColor
  ELSE "var(--negative-line-color)"

isShowingGrid(st) == st.present /\ st.isShowingGrid

\* settings?.sortingStyle || 'Original'
SettingsSortingStyle(st) ==
  IF st.present /\ st.sortingStyle # "" THEN st.sortingStyle ELSE "Original"

\* The settings-derived entries of the render effect's dependency list.
SettingsDeps(st) ==
  <<dotColorOne(st), dotColorTwo(st), positiveLineColor(st), negativeLineColor(st),
    isShowingGrid(st)>>

\* A child element of the SVG: its class and the numbers of its two kinds
\* of marks (visible and hover paths, dot-one and dot-two circles).
Element(class, first, second) == [class |-> class, first |-> first, second |-> second]

\* svg.selectAll('*').remove() that removes nothing.
selectAllRemoveNothing(children) == children

\* svg.selectAll('*').remove() at the start of the render effect.
selectAllRemove(children) == <<>>

\* svg.selectAll('.' + class).remove() that removes nothing.
removeGroupNothing(children, class) == children

\* svg.selectAll('.' + class).remove() at the start of drawElements.
removeGroup(children, class) == SelectSeq(children, LAMBDA c : c.class # class)

\* The marks drawElements puts in the scene: one visible and one hover
\* segment per row (lines) and the two markers per row.
drawElements(sortedData, uniqueCategories, st) ==
  [lines |-> LineMarks(sortedData, uniqueCategories, positiveLineColor(st),
                       negativeLineColor(st)),
   dotsOne |-> [i \in 1..Len(sortedData) |->
                  [x |-> NumberOrZero(sortedData[i][2]),
                   y |-> CategoryIndex(uniqueCategories, sortedData[i][1]),
                   fill |-> dotColorOne(st)]],
   dotsTwo |-> [i \in 1..Len(sortedData) |->
                  [x |-> NumberOrZero(sortedData[i][3]),
                   y |-> CategoryIndex(uniqueCategories, sortedData[i][1]),
                   fill |-> dotColorTwo(st)]]]

\* The groups drawElements leaves among the SVG's children: the two old
\* groups removed, a lines group and a dots group appended.
drawGroups(children, sortedData) ==
  removeGroup(removeGroup(children, "dots-group"), "lines-group")
    \o <<Element("lines-group", Len(sortedData), Len(sortedData)),
         Element("dots-group", Len(sortedData), Len(sortedData))>>

\* The elements drawAxis appends: the two axes and, if the grid is shown,
\* the two grids.
drawAxis(children, st) ==
  children \o <<Element("x-axis", 0, 0), Element("y-axis", 0, 0)>>
           \o (IF isShowingGrid(st)
                 THEN <<Element("x-grid", 0, 0), Element("y-grid", 0, 0)>>
                 ELSE <<>>)

\* The screen positions drawElements gives the marks of lines with the
\* scales it is handed: per row x of the two ends and the common y.
Positions(lines, xScale, yScale) ==
  [i \in 1..Len(lines) |->
     [x1 |-> ScaleApply(xScale, Frac(lines[i].x1, 1)),
      x2 |-> ScaleApply(xScale, Frac(lines[i].x2, 1)),
      y |-> ScaleApply(yScale, Frac(lines[i].y, 1))]]

\* What the render effect's closure holds for the zoom handler.
Inputs(d, st, style, dims) ==
  [data |-> d, deps |-> SettingsDeps(st), style |-> style, dims |-> dims]

\* The scene before the first render effect.
EmptyScene ==
  [drawn |-> FALSE, by |-> "none", style |-> "Original", width |-> 0, height |-> 0,
   sortedData |-> <<>>, uniqueCategories |-> <<>>, leftMargin |-> Fin(0),
   xScale |-> [domain |-> <<0, 0>>, range |-> <<Fin(0), Fin(0)>>],
   yScale |-> [domain |-> <<0, 0>>, range |-> <<Fin(0), Fin(0)>>],
   xSkipFactor |-> Fin(1), ySkipFactor |-> Fin(1),
   lines |-> <<>>, dotsOne |-> <<>>, dotsTwo |-> <<>>,
   xLabelSkip |-> Fin(1), yTickValues |-> <<>>, grid |-> FALSE,
   transform |-> Identity,
   newXScale |-> [domain |-> <<Frac(0, 1), Frac(0, 1)>>, range |-> <<Frac(0, 1), Frac(0, 1)>>],
   newYScale |-> [domain |-> <<Frac(0, 1), Frac(0, 1)>>, range |-> <<Frac(0, 1), Frac(0, 1)>>],
   children |-> <<>>,
   inputs |-> [data |-> <<>>, deps |-> <<>>, style |-> "Original",
               dims |-> [width |-> 0, height |-> 0]]]

\* The scene the render effect leaves (lines 609-831): everything removed,
\* then the marks and the axes drawn with the base scales.
RenderPass(e, d, st, style, dims, sc) ==
  LET sortedData == sortData(e, d, style).out
      uniqueCategories == UniqueCategories(sortedData)
      leftMargin == LeftMargin(d)
      xScale == [domain |-> <<0, DomainMax(sortedData)>>,
                 range |-> <<leftMargin, Fin(dims.width - MarginRight)>>]
      yScale == [domain |-> <<0, Len(uniqueCategories) - 1>>,
                 range |-> <<Fin(MarginTop), Fin(dims.height - MarginBottom)>>]
      xSkipFactor == calculateLabelSkip(dims.width, Len(sortedData), XLabelSize)
      ySkipFactor == calculateLabelSkip(dims.height, Len(uniqueCategories), YLabelSize)
      marks == drawElements(sortedData, uniqueCategories, st)
      defs == Append(selectAllRemove(sc.children), Element("defs", 0, 0))
  IN [drawn |-> TRUE, by |-> "render", style |-> style,
      width |-> dims.width, height |-> dims.height,
      sortedData |-> sortedData, uniqueCategories |-> uniqueCategories,
      leftMargin |-> leftMargin,
      xScale |-> xScale,
      yScale |-> yScale,
      xSkipFactor |-> xSkipFactor, ySkipFactor |-> ySkipFactor,
      lines |-> marks.lines, dotsOne |-> marks.dotsOne, dotsTwo |-> marks.dotsTwo,
      xLabelSkip |-> xSkipFactor,
      yTickValues |-> TickValues(Len(uniqueCategories), ySkipFactor),
      grid |-> isShowingGrid(st),
      transform |-> Identity,
      newXScale |-> ScaleLinear(xScale),
      newYScale |-> ScaleLinear(yScale),
      children |-> drawAxis(drawGroups(defs, sortedData), st),
      inputs |-> Inputs(d, st, style, dims)]

\* The zoom handler rescaling the scales of the previous redraw instead of
\* the render effect's.
ZoomPassCompounding(sc, st, transform) ==
  LET marks == drawElements(sc.sortedData, sc.uniqueCategories, st)
      newXScale == rescaleX(transform, sc.newXScale)
      newYScale == rescaleY(transform, sc.newYScale)
  IN
  [sc EXCEPT !.by = "zoom",
             !.lines = marks.lines, !.dotsOne = marks.dotsOne, !.dotsTwo = marks.dotsTwo,
             !.xLabelSkip = Fin(1),
             !.yTickValues = TickValues(Len(sc.uniqueCategories), Fin(1)),
             !.transform = transform,
             !.newXScale = newXScale,
             !.newYScale = newYScale,
             !.children = drawGroups(sc.children, sc.sortedData)]

\* The scene the zoom handler leaves (lines 837-871): the marks redrawn
\* with the base scales rescaled by the event's transform, both axes
\* relabelled without skipping.
ZoomPass(sc, st, transform) ==
  LET marks == drawElements(sc.sortedData, sc.uniqueCategories, st)
      newXScale == rescaleX(transform, ScaleLinear(sc.xScale))
      newYScale == rescaleY(transform, ScaleLinear(sc.yScale))
  IN
  [sc EXCEPT !.by = "zoom",
             !.lines = marks.lines, !.dotsOne = marks.dotsOne, !.dotsTwo = marks.dotsTwo,
             !.xLabelSkip = Fin(1),
             !.yTickValues = TickValues(Len(sc.uniqueCategories), Fin(1)),
             !.transform = transform,
             !.newXScale = newXScale,
             !.newYScale = newYScale,
             !.children = drawGroups(sc.children, sc.sortedData)]

\* scaleExtent([0.5, 5]) in the unit of k2.
ScaleExtentMin == 1

ScaleExtentMax == 10

\* The transform a gesture asks for, before d3-zoom bounds it: k4 is four
\* times the zoom factor, tx and ty the translation.
Request(k4, tx, ty) == [k4 |-> k4, tx |-> tx, ty |-> ty]

\* The gestures on a viewport of w by h: zooming out and in, within and
\* beyond the scale extent, and panning within and beyond the translate
\* extent.
Requests(w, h) ==
  {Request(1, 0, 0), Request(2, 0, 0), Request(2, w, h),
   Request(4, 0, 0), Request(4, w \div 2, h \div 2), Request(4, 0 - w, 0 - h),
   Request(8, 0 - w, 0 - h), Request(8, 0 - 3 * w, 0 - 3 * h),
   Request(24, 0 - 4 * w, 0 - 4 * h), Request(40, 0 - 4 * w, 0 - 4 * h)}

\* scale() of d3-zoom: k bounded by the scale extent.
ScaleTo(request) ==
  Transform(Max(2 * ScaleExtentMin, Min(2 * ScaleExtentMax, request.k4)) \div 2,
            request.tx, request.ty)

\* d3-zoom's constrain that leaves the translation as asked.
ConstrainNothing(t, k2, size) == t

\* One axis of d3-zoom's default constrain for the extent [0, size] and the
\* translate extent [0, size]: the translation t at factor k2 / 2 moved so
\* that the viewport stays inside the translate extent, or is centred on it
\* when it is the larger.
Constrain(t, k2, size) ==
  LET kdx0 == 0 - t                           \* k * (invert(0) - 0)
      kdx1 == size - t - (k2 * size) \div 2   \* k * (invert(size) - size)
  IN IF kdx1 > kdx0 THEN t + (kdx0 + kdx1) \div 2
     ELSE IF kdx0 < 0 THEN t + kdx0
     ELSE IF kdx1 > 0 THEN t + kdx1
     ELSE t

\* The transforms d3-zoom can deliver for a viewport of w by h under
\* scaleExtent [0.5, 5] and translateExtent [[0, 0], [w, h]].
ZoomTransforms(w, h) ==
  {LET scaled == ScaleTo(request) IN
     Transform(scaled.k2, Constrain(scaled.tx, scaled.k2, w),
               Constrain(scaled.ty, scaled.k2, h)) : request \in Requests(w, h)}

\* No mark holds the pointer.
NoHover == [class |-> "none", row |-> 0]

\* The tooltip element as the component's markup creates it (lines
\* 881-890): not displayed, empty. class and row name the mark whose
\* mouseover handler wrote it last, midpointX and midpointY are the point
\* a hover line's handler computed, measured tells whether the element had
\* a size (was displayed) when the handler read offsetWidth and
\* offsetHeight.
TooltipMarkup ==
  [display |-> FALSE, class |-> "none", row |-> 0, midpointX |-> Frac(0, 1),
   midpointY |-> Frac(0, 1), measured |-> FALSE, html |-> ""]

\* ---------------------------------------------------------------- variables

VARIABLES
  engine,     \* the sort algorithm of the build the code runs on
  formatIn,   \* FormatSpec: the number handed to formatNumber
  formatOut,  \* FormatSpec: the text formatNumber returned, "" before the call
  sortIn,     \* SortSpec: the host array handed to sortData, before the call
  sortArg,    \* SortSpec: the same array after the call
  sortStyle,  \* SortSpec: the policy of the call
  sortOut,    \* SortSpec: the array sortData returned
  prevOut,    \* SortSpec: the output that was sorted again
  sortPhase,  \* SortSpec: "input", "sorted" (one call), "resorted" (two)
  data,       \* the host's rows (props.data.data)
  settings,   \* the host's settings object (context.component.settings)
  container,  \* clientWidth and clientHeight of the host's container
  dimensions, \* the dimensions state
  sortingStyle,        \* the sortingStyle state
  currentSortingStyle, \* the currentSortingStyle ref
  phase,      \* "mounting" (before the effects ran), "mounted", "crashed",
              \* "unmounted"
  resizeListeners, \* the handleResize listeners registered on the window
  effectPending, \* a dependency of the render effect changed since it ran
  scene,      \* what the SVG holds
  zoomTransform, \* the transform d3-zoom keeps on the SVG element (__zoom)
  hover,      \* the mark that received mouseover and no mouseout since
  tooltip     \* the tooltip element: its display, position and content

formatVars == <<formatIn, formatOut>>

sortVars == <<sortIn, sortArg, sortStyle, sortOut, prevOut, sortPhase>>

compVars ==
  <<data, settings, container, dimensions, sortingStyle, currentSortingStyle, phase,
    resizeListeners, effectPending, scene, zoomTransform, hover, tooltip>>

vars == <<engine, formatVars, sortVars, compVars>>

\* ----------------------------------------------------- SortSpec: sortData

\* The cells the bounded row sequences are built from.
SortCells == {AbsentCell, NumCell(0), NumCell(1)}

SortRows == {Row(StrCell("A"), a, b) : a \in SortCells, b \in SortCells}

RowSeqs == UNION {[1..n -> SortRows] : n \in 0..MaxRows}

\* The policies a caller can pass: the five of the settings dropdown and an
\* unrecognised string.
StyleArgs == SortingStyles \cup {"Bogus"}

SortIdle ==
  /\ sortIn = <<>> /\ sortArg = <<>> /\ sortStyle = "Original"
  /\ sortOut = <<>> /\ prevOut = <<>> /\ sortPhase = "input"

\* The component before it is mounted, as SortSpec leaves it.
CompIdle ==
  /\ data = <<>>
  /\ settings = [present |-> FALSE, sortingStyle |-> "", dotColorOne |-> "",
                 dotColorTwo |-> "", positiveLineColor |-> "",
                 negativeLineColor |-> "", isShowingGrid |-> FALSE]
  /\ container = [width |-> 0, height |-> 0]
  /\ dimensions = [width |-> 800, height |-> 600]
  /\ sortingStyle = "Original"
  /\ currentSortingStyle = "Original"
  /\ phase = "mounting"
  /\ resizeListeners = 0
  /\ effectPending = TRUE
  /\ scene = EmptyScene
  /\ zoomTransform = Identity
  /\ hover = NoHover
  /\ tooltip = TooltipMarkup

\* formatNumber not called, as the other specifications leave it.
FormatIdle == formatIn = Dec(FALSE, 0, 0) /\ formatOut = ""

SortInit ==
  /\ CompIdle
  /\ FormatIdle
  /\ engine \in Engines
  /\ sortIn \in RowSeqs
  /\ sortArg = sortIn
  /\ sortStyle = "Original"
  /\ sortOut = <<>>
  /\ prevOut = <<>>
  /\ sortPhase = "input"

\* One call sortData(sortIn, style).
SortCall(style) ==
  /\ sortPhase = "input"
  /\ LET r == sortData(engine, sortIn, style) IN
       /\ sortArg' = r.data
       /\ sortOut' = r.out
  /\ sortStyle' = style
  /\ sortPhase' = "sorted"
  /\ UNCHANGED <<engine, formatVars, sortIn, prevOut, compVars>>

\* sortData applied to its own output, same policy.
SortAgain ==
  /\ sortPhase = "sorted"
  /\ prevOut' = sortOut
  /\ sortOut' = sortData(engine, sortOut, sortStyle).out
  /\ sortPhase' = "resorted"
  /\ UNCHANGED <<engine, formatVars, sortIn, sortArg, sortStyle, compVars>>

SortNext == (\E style \in StyleArgs : SortCall(style)) \/ SortAgain

SortSpec == SortInit /\ [][SortNext]_vars

\* ------------------------------------------------- FormatSpec: formatNumber

\* The largest decimal exponent of the numbers handed to formatNumber.
MaxExponent == 7

\* The digits of those numbers: the scenarios' (15, 999, 23), numbers that
\* need no rounding, numbers that round up into the next power of ten and
\* numbers half-way between two three-digit results.
FormatDigits ==
  {0, 1, 5, 15, 23, 50, 999, 1000, 1005, 1234, 9994, 9995, 12345, 99949, 99950,
   999499, 999500, 999999}

FormatValues ==
  {Dec(neg, m, e) : neg \in BOOLEAN, m \in FormatDigits, e \in (0 - 3)..MaxExponent}

FormatInit ==
  /\ CompIdle
  /\ SortIdle
  /\ engine \in Engines
  /\ formatIn \in FormatValues
  /\ formatOut = ""

\* One call formatNumber(formatIn).
FormatCall ==
  /\ formatOut = ""
  /\ \E tieUp \in BOOLEAN : formatOut' = formatNumber(formatIn, tieUp)
  /\ UNCHANGED <<engine, formatIn, sortVars, compVars>>

FormatNext == FormatCall

FormatSpec == FormatInit /\ [][FormatNext]_vars

\* -------------------------------------------------- Spec: the component

Settings(style, dotOne, dotTwo, positive, negative, grid) ==
  [present |-> TRUE, sortingStyle |-> style, dotColorOne |-> dotOne,
   dotColorTwo |-> dotTwo, positiveLineColor |-> positive,
   negativeLineColor |-> negative, isShowingGrid |-> grid]

\* An undefined settings object.
NoSettings ==
  [present |-> FALSE, sortingStyle |-> "", dotColorOne |-> "", dotColorTwo |-> "",
   positiveLineColor |-> "", negativeLineColor |-> "", isShowingGrid |-> FALSE]

\* The settings objects the host supplies.
SettingsCatalogue ==
  {NoSettings, Settings("", "", "", "", "", FALSE),
   Settings("Bogus", "", "", "", "", FALSE),
   Settings("DifferenceDescending", "blue", "orange", "green", "red", TRUE)}
  \cup {Settings(style, "", "", "", "", FALSE) :
          style \in {"Ascending", "DifferenceAscending", "DifferenceDescending"}}

\* The spec's scenario rows.
ScenarioRows ==
  <<Row(StrCell("North"), NumCell(100), NumCell(150)),
    Row(StrCell("South"), NumCell(200), NumCell(180)),
    Row(StrCell("East"), NumCell(50), NumCell(50))>>

\* The row sequences the host supplies: the scenario, no rows, one row of
\* zeros, one row of other values, a repeated category, and cells that are
\* absent or not numeric.
DataCatalogue ==
  {ScenarioRows,
   <<>>,
   <<Row(StrCell("A"), NumCell(0), NumCell(0))>>,
   <<Row(StrCell("Solo"), NumCell(3), NumCell(1))>>,
   <<Row(StrCell("A"), NumCell(1), NumCell(2)),
     Row(StrCell("B"), NumCell(3), NumCell(1)),
     Row(StrCell("A"), NumCell(2), NumCell(2))>>,
   <<Row(StrCell("Northwestern"), NumCell(4), AbsentCell),
     Row(AbsentCell, StrCell("n/a"), NumCell(1)),
     Row(StrCell("C"), NumCell(2), NumCell(2))>>}

\* The container sizes the host gives the component.
ContainerSizes ==
  {[width |-> 400, height |-> 300], [width |-> 120, height |-> 72], [width |-> 80, height |-> 60],
   [width |-> 0, height |-> 0]}

\* The state after the first render: useState and useRef initial values,
\* no effect run yet.
Init ==
  /\ SortIdle
  /\ FormatIdle
  /\ engine \in Engines
  /\ data \in DataCatalogue
  /\ settings \in SettingsCatalogue
  /\ container \in ContainerSizes
  /\ dimensions = [width |-> 800, height |-> 600]
  /\ sortingStyle = SettingsSortingStyle(settings)
  /\ currentSortingStyle = "Original"
  /\ phase = "mounting"
  /\ resizeListeners = 0
  /\ effectPending = TRUE
  /\ scene = EmptyScene
  /\ zoomTransform = Identity
  /\ hover = NoHover
  /\ tooltip = TooltipMarkup

\* The body of the render effect (lines 602-874) run with the dimensions
\* dims: settings.sortingStyle throws on an undefined settings object, and
\* React unmounts the component on the uncaught error (the SVG and the
\* tooltip are removed, the effects' cleanups run); otherwise the sort
\* policy is copied into the state and the ref when it differs from the
\* ref, and the scene is drawn with the policy the state held when the
\* component function ran. The marks of the previous draw are removed
\* without a mouseout; the tooltip element is not touched.
RenderEffectBody(dims) ==
  IF ~settings.present
    THEN /\ phase' = "crashed"
         /\ scene' = EmptyScene
         /\ hover' = NoHover
         /\ tooltip' = TooltipMarkup
         /\ UNCHANGED <<sortingStyle, currentSortingStyle>>
    ELSE /\ phase' = "mounted"
         /\ hover' = NoHover
         /\ UNCHANGED tooltip
         /\ IF settings.sortingStyle # currentSortingStyle
              THEN /\ sortingStyle' = SettingsSortingStyle(settings)
                   /\ currentSortingStyle' = SettingsSortingStyle(settings)
              ELSE UNCHANGED <<sortingStyle, currentSortingStyle>>
         /\ scene' = RenderPass(engine, data, settings, sortingStyle, dims, scene)

\* The two effects of the first commit, in order: the resize effect reads
\* the container (setDimensions) and registers the listener, the render
\* effect draws with the initial 800 by 600; then the queued dimensions are
\* applied, which re-runs the render effect.
Mount ==
  /\ phase = "mounting"
  /\ RenderEffectBody(dimensions)
  /\ dimensions' = container
  /\ resizeListeners' = IF settings.present THEN resizeListeners + 1 ELSE resizeListeners
  /\ effectPending' = TRUE
  /\ UNCHANGED <<engine, formatVars, sortVars, data, settings, container, zoomTransform>>

\* The render effect, re-run because a dependency changed.
RenderEffect ==
  /\ phase = "mounted"
  /\ effectPending
  /\ RenderEffectBody(dimensions)
  /\ resizeListeners' = IF settings.present THEN resizeListeners ELSE resizeListeners - 1
  /\ effectPending' = (sortingStyle' # sortingStyle)
  /\ UNCHANGED <<engine, formatVars, sortVars, data, settings, container, dimensions,
                 zoomTransform>>

\* The host supplies a new result set: data.data is a new array.
HostSetData(d) ==
  /\ phase = "mounted"
  /\ ~effectPending
  /\ data' = d
  /\ effectPending' = TRUE
  /\ UNCHANGED <<engine, formatVars, sortVars, settings, container, dimensions, sortingStyle,
                 currentSortingStyle, phase, resizeListeners, scene, zoomTransform,
                 hover, tooltip>>

\* The host supplies a new settings object: the render effect re-runs only
\* if an entry of its dependency list changed.
HostSetSettings(st) ==
  /\ phase = "mounted"
  /\ ~effectPending
  /\ st # settings
  /\ settings' = st
  /\ effectPending' = (SettingsDeps(st) # SettingsDeps(settings))
  /\ UNCHANGED <<engine, formatVars, sortVars, data, container, dimensions, sortingStyle,
                 currentSortingStyle, phase, resizeListeners, scene, zoomTransform,
                 hover, tooltip>>

\* The window is resized: every registered handleResize runs, and if the
\* container ref is set (the component is mounted) reads the container and
\* sets the dimensions state to a new object.
WindowResize(size) ==
  /\ phase \in {"mounted", "unmounted", "crashed"}
  /\ phase = "mounted" => ~effectPending
  /\ container' = size
  /\ IF resizeListeners > 0 /\ phase = "mounted"
       THEN dimensions' = size /\ effectPending' = TRUE
       ELSE UNCHANGED <<dimensions, effectPending>>
  /\ UNCHANGED <<engine, formatVars, sortVars, data, settings, sortingStyle,
                 currentSortingStyle, phase, resizeListeners, scene, zoomTransform,
                 hover, tooltip>>

\* Unmount that leaves the resize listener on the window.
UnmountKeepListener ==
  /\ phase = "mounted"
  /\ ~effectPending
  /\ phase' = "unmounted"
  /\ effectPending' = FALSE
  /\ scene' = EmptyScene
  /\ zoomTransform' = Identity
  /\ hover' = NoHover
  /\ tooltip' = TooltipMarkup
  /\ UNCHANGED <<engine, formatVars, sortVars, data, settings, container, dimensions,
                 sortingStyle, currentSortingStyle, resizeListeners>>

\* The host removes the component: the cleanup of the resize effect
\* removes the listener; the container, the SVG and the tooltip leave the
\* document.
Unmount ==
  /\ phase = "mounted"
  /\ ~effectPending
  /\ phase' = "unmounted"
  /\ resizeListeners' = resizeListeners - 1
  /\ effectPending' = FALSE
  /\ scene' = EmptyScene
  /\ zoomTransform' = Identity
  /\ hover' = NoHover
  /\ tooltip' = TooltipMarkup
  /\ UNCHANGED <<engine, formatVars, sortVars, data, settings, container, dimensions,
                 sortingStyle, currentSortingStyle>>

\* The host mounts the component again: a new instance, with the initial
\* values of its state hooks and refs.
Remount ==
  /\ phase = "unmounted"
  /\ phase' = "mounting"
  /\ dimensions' = [width |-> 800, height |-> 600]
  /\ sortingStyle' = SettingsSortingStyle(settings)
  /\ currentSortingStyle' = "Original"
  /\ effectPending' = TRUE
  /\ UNCHANGED <<engine, formatVars, sortVars, data, settings, container, resizeListeners,
                 scene, zoomTransform, hover, tooltip>>

\* A zoom or pan gesture on the SVG: the handler of the last render effect
\* runs with the event's transform. drawElements removes the two groups,
\* the hovered mark with them and without a mouseout, and appends new
\* marks; the tooltip element is not touched.
Zoom(transform) ==
  /\ phase = "mounted"
  /\ ~effectPending
  /\ scene.drawn
  /\ scene.width > 0 /\ scene.height > 0
  /\ scene' = ZoomPass(scene, settings, transform)
  /\ zoomTransform' = transform
  /\ hover' = NoHover
  /\ UNCHANGED <<engine, formatVars, sortVars, data, settings, container, dimensions,
                 sortingStyle, currentSortingStyle, phase, resizeListeners, effectPending,
                 tooltip>>

\* The classes of the marks that have pointer handlers.
MarkClasses == {"hover-line", "dot-one", "dot-two"}

\* (a + b) / 2 of the hover line's handler.
Midpoint(a, b) ==
  CASE a.k = "nan" \/ b.k = "nan" -> QNaN
    [] a.k = "fin" /\ b.k = "fin" -> QMul(QAdd(a, b), Frac(1, 2))
    [] a.k = "fin" -> b
    [] b.k = "fin" -> a
    [] a.k = b.k -> a
    [] OTHER -> QNaN

\* The pointer enters the mark of the given class of the row-th row: its
\* mouseover handler displays the tooltip. A hover line's handler places
\* it at the segment's midpoint under the scales drawElements was called
\* with, less half the tooltip's size (0 while it is not displayed), and
\* writes the difference; a marker's handler places it by the pointer and
\* writes the marker's value.
MouseOver(class, row) ==
  /\ phase = "mounted"
  /\ ~effectPending
  /\ scene.drawn
  /\ hover = NoHover
  /\ row \in 1..Len(scene.lines)
  /\ hover' = [class |-> class, row |-> row]
  /\ \E tieUp \in BOOLEAN :
       LET d == scene.lines[row]
           p == Positions(scene.lines, scene.newXScale, scene.newYScale)[row]
           difference == d.x2 - d.x1
           value == IF class = "dot-one" THEN d.x1 ELSE d.x2
       IN tooltip' =
            IF class = "hover-line"
              THEN [display |-> TRUE, class |-> class, row |-> row,
                    midpointX |-> Midpoint(p.x2, p.x1),
                    midpointY |-> Midpoint(p.y, p.y),
                    measured |-> tooltip.display,
                    html |-> "Difference: "
                               \o formatNumber(Dec(difference < 0, Abs(difference), 0), tieUp)]
              ELSE [tooltip EXCEPT !.display = TRUE, !.class = class, !.row = row,
                                   !.html = "Value: "
                                              \o formatNumber(Dec(value < 0, Abs(value), 0), tieUp)]
  /\ UNCHANGED <<engine, formatVars, sortVars, data, settings, container, dimensions,
                 sortingStyle, currentSortingStyle, phase, resizeListeners, effectPending,
                 scene, zoomTransform>>

\* The pointer leaves the hovered mark: its mouseout handler sets the
\* tooltip's display to none.
MouseOut ==
  /\ phase = "mounted"
  /\ ~effectPending
  /\ hover # NoHover
  /\ hover' = NoHover
  /\ tooltip' = [tooltip EXCEPT !.display = FALSE]
  /\ UNCHANGED <<engine, formatVars, sortVars, data, settings, container, dimensions,
                 sortingStyle, currentSortingStyle, phase, resizeListeners, effectPending,
                 scene, zoomTransform>>

Next ==
  \/ Mount
  \/ RenderEffect
  \/ \E d \in DataCatalogue : HostSetData(d)
  \/ \E st \in SettingsCatalogue : HostSetSettings(st)
  \/ \E size \in ContainerSizes : WindowResize(size)
  \/ \E transform \in ZoomTransforms(scene.width, scene.height) : Zoom(transform)
  \/ Unmount
  \/ Remount

Spec == Init /\ [][Next]_vars

\* ------------------------------- HoverSpec: the component under the pointer

\* The rows the host supplies under HoverSpec.
HoverData == {ScenarioRows, <<Row(StrCell("Solo"), NumCell(3), NumCell(1))>>}

\* The component as Spec starts it, with a settings object of defaults and
\* a container of 400 by 300 (the rows are numeric: the engines agree on
\* them).
HoverInit ==
  /\ Init
  /\ engine = "timsort"
  /\ data \in HoverData
  /\ settings = Settings("", "", "", "", "", FALSE)
  /\ container = [width |-> 400, height |-> 300]

\* The render effect, new rows from the host, zoom gestures and the
\* pointer entering and leaving marks.
HoverNext ==
  \/ Mount
  \/ RenderEffect
  \/ \E d \in HoverData : HostSetData(d)
  \/ \E transform \in ZoomTransforms(scene.width, scene.height) : Zoom(transform)
  \/ \E class \in MarkClasses, row \in 1..Len(scene.lines) : MouseOver(class, row)
  \/ MouseOut

HoverSpec == HoverInit /\ [][HoverNext]_vars

\* ------------------------------------------------- claims about sortData

\* The value of a Row field as the data model defines it: 0 for a cell that
\* is absent or not numeric.
ValueOf(cell) == IF cell.t = "num" THEN cell.n ELSE 0

\* The signed sort key valueB - valueA of a row.
DiffKey(r) == ValueOf(r[3]) - ValueOf(r[2])

\* The key each policy is documented to sort by.
SortKey(style, r) ==
  CASE style \in {"Ascending", "Descending"} -> ValueOf(r[2])
    [] style \in {"DifferenceAscending", "DifferenceDescending"} -> DiffKey(r)
    [] OTHER -> 0

AllNumeric(s) == \A i \in 1..Len(s) : s[i][2].t = "num" /\ s[i][3].t = "num"

\* C1: after sortData under DifferenceAscending (DifferenceDescending) the
\* rows are in non-decreasing (non-increasing) order of the signed key
\* valueB - valueA, for every row sequence.
C1_SignedDifferenceOrder ==
  sortPhase = "sorted" =>
    /\ sortStyle = "DifferenceAscending" =>
         \A i, j \in 1..Len(sortOut) : i < j => DiffKey(sortOut[i]) <= DiffKey(sortOut[j])
    /\ sortStyle = "DifferenceDescending" =>
         \A i, j \in 1..Len(sortOut) : i < j => DiffKey(sortOut[i]) >= DiffKey(sortOut[j])

\* The signed order does hold when every value cell is numeric.
SignedDifferenceOrderOnNumericRows ==
  (sortPhase = "sorted" /\ AllNumeric(sortIn)) =>
    /\ sortStyle = "DifferenceAscending" =>
         \A i, j \in 1..Len(sortOut) : i < j => DiffKey(sortOut[i]) <= DiffKey(sortOut[j])
    /\ sortStyle = "DifferenceDescending" =>
         \A i, j \in 1..Len(sortOut) : i < j => DiffKey(sortOut[i]) >= DiffKey(sortOut[j])

\* r with a period-one cell that is absent or not numeric replaced by 0.
ZeroValueA(r) == IF r[2].t = "num" THEN r ELSE Row(r[1], NumCell(0), r[3])

ZeroValueASeq(s) == [i \in 1..Len(s) |-> ZeroValueA(s[i])]

\* C2: under Ascending or Descending the comparator never yields NaN, and
\* every row is placed where it would be placed if a missing period-one
\* value were 0.
C2_MissingValueAComparesAsZero ==
  (sortPhase = "sorted" /\ sortStyle \in {"Ascending", "Descending"}) =>
    /\ \A i, j \in 1..Len(sortIn) : compareFn(sortStyle, sortIn[i], sortIn[j]).k # "nan"
    /\ ZeroValueASeq(sortOut) = sortData(engine, ZeroValueASeq(sortIn), sortStyle).out

NoTiedDifferences(s) ==
  \A i, j \in 1..Len(s) : i # j => DiffKey(s[i]) # DiffKey(s[j])

\* C3: when no two rows have the same difference, the DifferenceDescending
\* output is the reverse of the DifferenceAscending output.
C3_DescendingReversesAscending ==
  (sortPhase = "sorted" /\ sortStyle = "DifferenceDescending" /\ NoTiedDifferences(sortIn)) =>
    sortOut = Reverse(sortData(engine, sortIn, "DifferenceAscending").out)

\* The reversal does hold when every value cell is numeric.
DescendingReversesAscendingOnNumericRows ==
  (/\ sortPhase = "sorted" /\ sortStyle = "DifferenceDescending"
   /\ NoTiedDifferences(sortIn) /\ AllNumeric(sortIn)) =>
    sortOut = Reverse(sortData(engine, sortIn, "DifferenceAscending").out)

RowSet(rows) == {rows[i] : i \in 1..Len(rows)}

Occurrences(s, r) == Cardinality({i \in 1..Len(s) : s[i] = r})

IndexOf(s, r) == CHOOSE i \in 1..Len(s) : s[i] = r

\* C4: for every policy, two rows with equal sort keys keep their relative
\* order (stated for rows that occur once, so that their places are known).
C4_SortIsStable ==
  sortPhase = "sorted" =>
    \A i, j \in 1..Len(sortIn) :
      (/\ i < j
       /\ SortKey(sortStyle, sortIn[i]) = SortKey(sortStyle, sortIn[j])
       /\ Occurrences(sortIn, sortIn[i]) = 1
       /\ Occurrences(sortIn, sortIn[j]) = 1
       /\ Occurrences(sortOut, sortIn[i]) = 1
       /\ Occurrences(sortOut, sortIn[j]) = 1)
      => IndexOf(sortOut, sortIn[i]) < IndexOf(sortOut, sortIn[j])

\* Stability does hold when every value cell is numeric.
SortIsStableOnNumericRows ==
  (sortPhase = "sorted" /\ AllNumeric(sortIn)) =>
    \A i, j \in 1..Len(sortIn) :
      (/\ i < j
       /\ SortKey(sortStyle, sortIn[i]) = SortKey(sortStyle, sortIn[j])
       /\ Occurrences(sortIn, sortIn[i]) = 1
       /\ Occurrences(sortIn, sortIn[j]) = 1)
      => IndexOf(sortOut, sortIn[i]) < IndexOf(sortOut, sortIn[j])

\* C5: sortData under Ascending applied to its own output returns the same
\* order.
C5_AscendingIsIdempotent ==
  (sortPhase = "resorted" /\ sortStyle = "Ascending") => sortOut = prevOut

\* C5 witness: a sequence of three or more rows that the first Ascending
\* call reordered has been sorted a second time.
C5_Witness ==
  /\ sortPhase = "resorted" /\ sortStyle = "Ascending"
  /\ Len(sortIn) >= 3 /\ prevOut # sortIn

\* C6: sortData leaves the host's array as it was, under every policy, and
\* under Original or an unrecognised policy returns the input order.
C6_InputNotMutated ==
  sortPhase # "input" =>
    /\ sortArg = sortIn
    /\ (sortPhase = "sorted" /\ sortStyle \notin SortingStyles \ {"Original"}) =>
         sortOut = sortIn

\* C6 witness: a call under a sorting policy returned another order than
\* the input's.
C6_Witness ==
  /\ sortPhase = "sorted" /\ sortStyle = "DifferenceDescending"
  /\ sortOut # sortIn /\ Len(sortIn) >= 2

\* C26: under every policy (an unrecognised one included) and for every
\* row sequence, the rows sortData returns are a permutation of the rows
\* it was handed: as many rows, each row (category, valueA and valueB
\* cells as they were) as often as in the input; so it is when the output
\* is sorted again.
C26_SortIsPermutation ==
  sortPhase # "input" =>
    /\ Len(sortOut) = Len(sortIn)
    /\ \A r \in RowSet(sortIn) \cup RowSet(sortOut) :
         Occurrences(sortOut, r) = Occurrences(sortIn, r)

\* C26 witness: rows with an absent cell and a row that occurs twice came
\* back from DifferenceAscending in another order.
C26_Witness ==
  /\ sortPhase = "sorted" /\ sortStyle = "DifferenceAscending"
  /\ Len(sortIn) >= 3 /\ sortOut # sortIn
  /\ \E r \in RowSet(sortIn) : Occurrences(sortIn, r) >= 2
  /\ \E i \in 1..Len(sortIn) : sortIn[i][2].t = "absent"

\* -------------------------------------------- claims about the component

CategoryNames(rows) == [i \in 1..Len(rows) |-> rows[i][1].s]

\* No host event is half-processed: the render effect has run for the
\* current data, settings and dimensions.
Quiescent == phase = "mounted" /\ ~effectPending

\* C7: the scenario rows drawn under DifferenceDescending are rendered in
\* the order North, East, South, with category indices 0, 1, 2.
C7_ScenarioOrder ==
  (/\ scene.drawn /\ scene.style = "DifferenceDescending"
   /\ Len(scene.sortedData) = 3 /\ RowSet(scene.sortedData) = RowSet(ScenarioRows)) =>
    /\ CategoryNames(scene.sortedData) = <<"North", "East", "South">>
    /\ CategoryNames([i \in 1..3 |-> <<scene.uniqueCategories[i]>>]) =
         <<"North", "East", "South">>
    /\ \A i \in 1..3 : scene.lines[i].y = i - 1 /\ scene.dotsOne[i].y = i - 1
                       /\ scene.dotsTwo[i].y = i - 1

\* C7 witness: the scenario rows are in the scene, sorted under
\* DifferenceDescending into another order than the host's.
C7_Witness ==
  /\ scene.drawn /\ scene.style = "DifferenceDescending"
  /\ Len(scene.sortedData) = 3 /\ RowSet(scene.sortedData) = RowSet(ScenarioRows)
  /\ scene.sortedData # ScenarioRows

\* C8: in the initial draw and in every zoom redraw each segment has the
\* positive line color when its row's valueB - valueA >= 0 (0 included)
\* and the negative line color otherwise.
C8_SegmentColorBySign ==
  (Quiescent /\ scene.drawn) =>
    /\ Len(scene.lines) = Len(scene.sortedData)
    /\ \A i \in 1..Len(scene.lines) :
         scene.lines[i].stroke =
           IF DiffKey(scene.sortedData[i]) >= 0
             THEN positiveLineColor(settings)
             ELSE negativeLineColor(settings)

\* C8 witness: a zoom redraw of a scene with a rising, a falling and a
\* level segment, the level one in the positive color, the falling one in
\* another color.
C8_Witness ==
  /\ Quiescent /\ scene.by = "zoom"
  /\ \E i, j, l \in 1..Len(scene.lines) :
       /\ scene.lines[i].x2 > scene.lines[i].x1
       /\ scene.lines[j].x2 < scene.lines[j].x1
       /\ scene.lines[l].x2 = scene.lines[l].x1
       /\ scene.lines[l].stroke = positiveLineColor(settings)
       /\ scene.lines[j].stroke # scene.lines[l].stroke

\* C9: for a scene with at least one label, calculateLabelSkip gave both
\* axes a finite skip >= 1, equal to the label count (labelsFit taken as
\* 1) when no label fits.
C9_LabelSkipAtLeastOne ==
  (scene.drawn /\ Len(scene.sortedData) >= 1) =>
    /\ IsFin(scene.xSkipFactor) /\ scene.xSkipFactor.v >= 1
    /\ IsFin(scene.ySkipFactor) /\ scene.ySkipFactor.v >= 1
    /\ LabelsFit(scene.width, XLabelSize) <= 0 =>
         scene.xSkipFactor = Fin(Len(scene.sortedData))
    /\ LabelsFit(scene.height, YLabelSize) <= 0 =>
         scene.ySkipFactor = Fin(Len(scene.uniqueCategories))

\* C10: after a zoom event with factor k (k2 = 2k) the axes are labelled
\* with skip max(1, floor(baseSkip / k)), stated for scenes whose base
\* skips are finite and >= 1.
C10_ZoomSkipFollowsK ==
  (/\ scene.by = "zoom"
   /\ IsFin(scene.xSkipFactor) /\ scene.xSkipFactor.v >= 1
   /\ IsFin(scene.ySkipFactor) /\ scene.ySkipFactor.v >= 1) =>
    /\ scene.xLabelSkip =
         Fin(Max(1, (2 * scene.xSkipFactor.v) \div scene.transform.k2))
    /\ scene.yTickValues =
         TickValues(Len(scene.uniqueCategories),
                    Fin(Max(1, (2 * scene.ySkipFactor.v) \div scene.transform.k2)))

\* C11: a zoom event leaves the base scale pair of the render pass as it
\* was and draws with scales obtained by applying the event's transform to
\* that base pair, whatever earlier zoom events produced.
C11_ZoomRebasesFromBaseScales ==
  [][scene'.by = "zoom" =>
       /\ scene'.xScale = scene.xScale
       /\ scene'.yScale = scene.yScale
       /\ scene'.newXScale = rescaleX(scene'.transform, ScaleLinear(scene.xScale))
       /\ scene'.newYScale = rescaleY(scene'.transform, ScaleLinear(scene.yScale))]_vars

\* C11 witness: a zoom event with another transform than the identity has
\* redrawn the scene with scales that differ from the base pair.
C11_Witness ==
  /\ scene.by = "zoom" /\ scene.transform # Identity
  /\ Len(scene.lines) >= 2
  /\ scene.newXScale # ScaleLinear(scene.xScale)
  /\ scene.newYScale # ScaleLinear(scene.yScale)

\* The viewport [0, size] seen through the translation t at factor k2 / 2
\* shows the interval [-t / k, (size - t) / k] of the base layout.
WindowWithin(t, k2, size) == t <= 0 /\ 2 * (size - t) <= k2 * size

WindowCentredAround(t, k2, size) == 4 * t = size * (2 - k2) /\ t >= 0

XDomainValues(sc) ==
  {sc.lines[i].x1 : i \in 1..Len(sc.lines)} \cup {sc.lines[i].x2 : i \in 1..Len(sc.lines)}
    \cup {sc.xScale.domain[1], sc.xScale.domain[2]}

YDomainValues(sc) ==
  {sc.lines[i].y : i \in 1..Len(sc.lines)} \cup {sc.yScale.domain[1], sc.yScale.domain[2]}

SameOutputAsBase(sc) ==
  /\ \A v \in XDomainValues(sc) :
       ScaleApply(sc.newXScale, Frac(v, 1)) = ScaleApply(ScaleLinear(sc.xScale), Frac(v, 1))
  /\ \A v \in YDomainValues(sc) :
       ScaleApply(sc.newYScale, Frac(v, 1)) = ScaleApply(ScaleLinear(sc.yScale), Frac(v, 1))
  /\ Positions(sc.lines, sc.newXScale, sc.newYScale) =
       Positions(sc.lines, ScaleLinear(sc.xScale), ScaleLinear(sc.yScale))

\* C13: after a zoom event with the identity transform the scales of the
\* redraw give every domain value the output of the base scales, so every
\* mark is where the initial draw put it.
C13_IdentityZoomReproducesBase ==
  (scene.by = "zoom" /\ scene.transform = Identity) => SameOutputAsBase(scene)

\* The identity zoom does reproduce the base scales' output when there is
\* at least one row.
IdentityZoomReproducesBaseOnRows ==
  (scene.by = "zoom" /\ scene.transform = Identity /\ scene.sortedData # <<>>)
    => SameOutputAsBase(scene)

\* What a scene shows: the marks with their colors and screen positions,
\* the SVG's child elements, the labels of the axes and the grid.
Geometry(sc) ==
  [lines |-> sc.lines, dotsOne |-> sc.dotsOne, dotsTwo |-> sc.dotsTwo,
   positions |-> Positions(sc.lines, sc.newXScale, sc.newYScale),
   children |-> sc.children, xLabelSkip |-> sc.xLabelSkip,
   yTickValues |-> sc.yTickValues, grid |-> sc.grid]

\* C14: a redraw for the inputs of the previous redraw (the render effect
\* run again for the same data, settings, policy and size, or the zoom
\* handler run again with the same transform) leaves the same geometry.
C14_SameTriggerSameGeometry ==
  [][/\ (scene.by = "render" /\ scene'.by = "render" /\ scene'.inputs = scene.inputs)
          => Geometry(scene') = Geometry(scene)
     /\ (/\ scene.by = "zoom" /\ scene'.by = "zoom" /\ scene'.inputs = scene.inputs
         /\ scene'.transform = scene.transform)
          => Geometry(scene') = Geometry(scene)]_vars

\* C14 witness: the render effect has run for the current data, settings
\* and size while the scene held the draw of the same inputs (the host sent
\* the same rows again), with marks and a grid in the scene.
C14_Witness ==
  /\ Quiescent /\ scene.by = "render" /\ scene.grid
  /\ Len(scene.lines) >= 2
  /\ scene.inputs = Inputs(data, settings, sortingStyle, dimensions)

ElementsOf(sc, class) == {i \in 1..Len(sc.children) : sc.children[i].class = class}

\* C15: a drawn scene holds exactly one lines group and one dots group,
\* with one visible segment, one hover segment and two markers per row,
\* exactly one x-axis and one y-axis, and one grid per axis if the grid is
\* shown; once the trigger is completed the rows are the host's.
C15_NoMarksAccumulate ==
  scene.drawn =>
    /\ Cardinality(ElementsOf(scene, "lines-group")) = 1
    /\ Cardinality(ElementsOf(scene, "dots-group")) = 1
    /\ Cardinality(ElementsOf(scene, "x-axis")) = 1
    /\ Cardinality(ElementsOf(scene, "y-axis")) = 1
    /\ Cardinality(ElementsOf(scene, "x-grid")) = (IF scene.grid THEN 1 ELSE 0)
    /\ Cardinality(ElementsOf(scene, "y-grid")) = (IF scene.grid THEN 1 ELSE 0)
    /\ \A i \in ElementsOf(scene, "lines-group") \cup ElementsOf(scene, "dots-group") :
         /\ scene.children[i].first = Len(scene.sortedData)
         /\ scene.children[i].second = Len(scene.sortedData)
    /\ Len(scene.lines) = Len(scene.sortedData)
    /\ Len(scene.dotsOne) = Len(scene.sortedData)
    /\ Len(scene.dotsTwo) = Len(scene.sortedData)
    /\ Quiescent => Len(scene.sortedData) = Len(data)

\* C15 witness: a zoom redraw of a scene with rows and a grid has replaced
\* the two groups, which are now the SVG's last children.
C15_Witness ==
  /\ Quiescent /\ scene.by = "zoom" /\ scene.grid
  /\ Len(scene.sortedData) >= 2
  /\ scene.children[Len(scene.children)].class = "dots-group"

TornDown == phase \in {"unmounted", "crashed"}

\* C16: a mounted component has exactly one resize listener registered and
\* a torn-down one none, and no step taken while the component is torn down
\* (a window resize among them) changes the dimensions state.
C16_ResizeListenerRemoved ==
  [][/\ resizeListeners \in 0..1 /\ resizeListeners' \in 0..1
     /\ phase' = "mounted" => resizeListeners' = 1
     /\ phase' \in {"unmounted", "crashed"} => resizeListeners' = 0
     /\ (TornDown /\ phase' = phase) => dimensions' = dimensions]_vars

\* C16 witness: the component was unmounted and the window was resized
\* afterwards: the container has a size the dimensions state does not have.
C16_Witness ==
  /\ phase = "unmounted" /\ resizeListeners = 0
  /\ container # dimensions
  /\ dimensions # [width |-> 800, height |-> 600]

\* The longest category label of the rows, 0 when there are none.
MaxCategoryLabelLength(rows) ==
  IF rows = <<>> THEN 0
  ELSE CHOOSE n \in {LabelLength(rows[i][1]) : i \in 1..Len(rows)} :
         \A i \in 1..Len(rows) : LabelLength(rows[i][1]) <= n

LeftInsetOf(rows) == Min(40 + 8 * MaxCategoryLabelLength(rows), 100)

\* C17: in every drawn scene the left inset is
\* min(40 + 8 * maxCategoryLabelLength, 100) of the rows drawn (the host's
\* current rows once the trigger is completed), a number in [40, 100]
\* whatever the current and the earlier viewport sizes, and the value
\* scale's range is [leftInset, width - 30].
C17_LeftInsetFromData ==
  scene.drawn =>
    /\ scene.leftMargin = Fin(LeftInsetOf(scene.sortedData))
    /\ Quiescent => scene.leftMargin = Fin(LeftInsetOf(data))
    /\ IsFin(scene.leftMargin) /\ scene.leftMargin.v \in 40..100
    /\ scene.xScale.range = <<scene.leftMargin, Fin(scene.width - MarginRight)>>
    /\ Quiescent => scene.width = dimensions.width

\* The left inset is as documented when there is at least one row.
LeftInsetFromDataOnRows ==
  (scene.drawn /\ scene.sortedData # <<>>) =>
    /\ scene.leftMargin = Fin(LeftInsetOf(scene.sortedData))
    /\ Quiescent => scene.leftMargin = Fin(LeftInsetOf(data))
    /\ IsFin(scene.leftMargin) /\ scene.leftMargin.v \in 40..100
    /\ scene.xScale.range = <<scene.leftMargin, Fin(scene.width - MarginRight)>>
    /\ Quiescent => scene.width = dimensions.width

\* C18: with zero rows the render pass completes and draws no marks, the
\* value scale's domain is [0, 0], and the left inset, the clip rectangle
\* and the bounds of both scales' ranges are finite numbers.
C18_EmptyDataRendersFinite ==
  (Quiescent /\ data = <<>>) =>
    /\ scene.drawn /\ scene.sortedData = <<>>
    /\ scene.lines = <<>> /\ scene.dotsOne = <<>> /\ scene.dotsTwo = <<>>
    /\ scene.xScale.domain = <<0, 0>>
    /\ IsFin(scene.leftMargin)
    /\ \A i \in 1..2 : IsFin(scene.xScale.range[i]) /\ IsFin(scene.yScale.range[i])
    /\ IsFin(JsSub(JsSub(Fin(scene.width), scene.leftMargin), Fin(MarginRight)))

Between(p, a, b) ==
  /\ p.k = "fin"
  /\ \/ QLeq(a, p) /\ QLeq(p, b)
     \/ QLeq(b, p) /\ QLeq(p, a)

\* C19: with a single row the render pass completes, the category scale's
\* domain is [0, 0], and the one segment and its two markers are at finite
\* screen coordinates inside the inset rectangle (between the bounds of the
\* scales' ranges), also when the value scale's domain is [0, 0]; a zoom
\* redraw keeps the coordinates finite.
C19_SingleRowDrawnFinite ==
  (Quiescent /\ Len(data) = 1) =>
    /\ scene.drawn /\ Len(scene.lines) = 1
    /\ Len(scene.dotsOne) = 1 /\ Len(scene.dotsTwo) = 1
    /\ scene.yScale.domain = <<0, 0>>
    /\ LET p == Positions(scene.lines, scene.newXScale, scene.newYScale)[1]
           x == ScaleLinear(scene.xScale).range
           y == ScaleLinear(scene.yScale).range
       IN /\ p.x1.k = "fin" /\ p.x2.k = "fin" /\ p.y.k = "fin"
          /\ scene.by = "render" =>
               /\ Between(p.x1, x[1], x[2])
               /\ Between(p.x2, x[1], x[2])
               /\ Between(p.y, y[1], y[2])

\* C19 witness: a single row of zeros is drawn by the render effect, both
\* scales with the domain [0, 0].
C19_Witness ==
  /\ Quiescent /\ Len(data) = 1 /\ scene.by = "render"
  /\ scene.xScale.domain = <<0, 0>> /\ scene.yScale.domain = <<0, 0>>
  /\ scene.width > 0 /\ scene.height > 0

\* C20: whatever settings object the host supplies (none, one with absent
\* fields, one with an unrecognised sort policy) the render pass completes,
\* with the defaults in place of what is absent or unrecognised: the
\* host's row order, no grid, the default colors.
C20_SettingsFallBackToDefaults ==
  /\ phase # "crashed"
  /\ Quiescent =>
       /\ scene.drawn
       /\ sortingStyle \notin SortingStyles => scene.sortedData = data
       /\ (~settings.present \/ ~settings.isShowingGrid) => ~scene.grid
       /\ (~settings.present \/ settings.dotColorOne = "") =>
            \A i \in 1..Len(scene.dotsOne) : scene.dotsOne[i].fill = "var(--dot-color-one)"
       /\ (~settings.present \/ settings.dotColorTwo = "") =>
            \A i \in 1..Len(scene.dotsTwo) : scene.dotsTwo[i].fill = "var(--dot-color-two)"
       /\ (~settings.present \/ settings.positiveLineColor = ""
             \/ settings.negativeLineColor = "") =>
            \A i \in 1..Len(scene.lines) :
              scene.lines[i].stroke \in {"var(--positive-line-color)",
                                         "var(--negative-line-color)"}

\* With a settings object, whatever its fields, the render pass completes
\* with the defaults.
SettingsObjectFallsBackToDefaults ==
  /\ (phase = "crashed" => ~settings.present)
  /\ Quiescent =>
       /\ scene.drawn
       /\ sortingStyle \notin SortingStyles => scene.sortedData = data
       /\ ~settings.isShowingGrid => ~scene.grid

\* The distinct category labels of the rows.
Labels(rows) == {rows[i][1] : i \in 1..Len(rows)}

\* The place of the first row that has the label.
FirstOccurrence(rows, label) ==
  CHOOSE i \in 1..Len(rows) :
    rows[i][1] = label /\ \A j \in 1..(i - 1) : rows[j][1] # label

\* The number of distinct labels whose first row comes before the first row
\* of label: the index the label has in order of first occurrence.
IndexByFirstOccurrence(rows, label) ==
  Cardinality({l \in Labels(rows) : FirstOccurrence(rows, l) < FirstOccurrence(rows, label)})

\* C21: in every drawn scene (initial draw or zoom redraw) two rows with the
\* same category label have the same category index, the indices of the
\* distinct labels are exactly 0..N-1 in order of first occurrence in the
\* sorted rows (the category scale's domain is [0, N-1]), and every row,
\* rows with a repeated category included, has its own segment and its two
\* markers.
C21_CategoryIndexPerLabel ==
  scene.drawn =>
    LET rows == scene.sortedData
        N == Cardinality(Labels(rows))
    IN /\ Len(scene.uniqueCategories) = N
       /\ scene.yScale.domain = <<0, N - 1>>
       /\ Len(scene.lines) = Len(rows)
       /\ Len(scene.dotsOne) = Len(rows) /\ Len(scene.dotsTwo) = Len(rows)
       /\ \A i \in 1..Len(rows) :
            /\ scene.lines[i].y = IndexByFirstOccurrence(rows, rows[i][1])
            /\ scene.lines[i].y \in 0..(N - 1)
            /\ scene.uniqueCategories[scene.lines[i].y + 1] = rows[i][1]
            /\ scene.dotsOne[i].y = scene.lines[i].y
            /\ scene.dotsTwo[i].y = scene.lines[i].y
            /\ scene.lines[i].x1 = NumberOrZero(rows[i][2])
            /\ scene.lines[i].x2 = NumberOrZero(rows[i][3])
            /\ scene.dotsOne[i].x = scene.lines[i].x1
            /\ scene.dotsTwo[i].x = scene.lines[i].x2
       /\ \A i, j \in 1..Len(rows) :
            rows[i][1] = rows[j][1] => scene.lines[i].y = scene.lines[j].y

\* C21 witness: three rows of two categories are drawn in another order
\* than the host's, so that the label of the host's first row is not the
\* one with index 0.
C21_Witness ==
  /\ Quiescent /\ scene.drawn
  /\ Len(scene.sortedData) = 3 /\ Len(scene.uniqueCategories) = 2
  /\ scene.sortedData # data
  /\ scene.uniqueCategories[1] # data[1][1]

\* --------------------------------------------- claims about formatNumber

\* The power of ten of the suffix the magnitude of value calls for: 9 (B)
\* from 10^9, 6 (M) from 10^6, 3 (K) from 10^3, else 0 (no suffix). The
\* number m * 10^e is at least 10^t when m has more than t - e digits.
SuffixPower(value) ==
  LET atLeast(t) ==
        /\ value.m > 0
        /\ \/ value.e >= t
           \/ t - value.e <= 9 /\ value.m >= Pow10(t - value.e)
  IN IF atLeast(9) THEN 9 ELSE IF atLeast(6) THEN 6 ELSE IF atLeast(3) THEN 3 ELSE 0

SuffixText(power) ==
  CASE power = 9 -> "B" [] power = 6 -> "M" [] power = 3 -> "K" [] OTHER -> ""

\* n * 10^(e - 2) is a nearest three-digit number to m * 10^f: twice their
\* distance is at most one unit of the third digit.
NearestThreeDigits(n, e, m, f) ==
  LET low == Min(e - 2, f)
      a == n * Pow10(e - 2 - low)
      b == m * Pow10(f - low)
  IN 2 * Abs(a - b) <= Pow10(e - 2 - low)

\* C22: the text formatNumber returns is the sign, three significant
\* digits that are a nearest three-digit number to the value divided by
\* the power of its suffix, and the suffix the magnitude of the absolute
\* value calls for (B from 1e9, M from 1e6, K from 1e3, else none);
\* 1_500_000 gives "1.50M", 999 gives "999" and 2_300_000_000 gives "2.30B".
C22_FormatNumberSuffixAndDigits ==
  formatOut # "" =>
    /\ formatIn = Dec(FALSE, 15, 5) => formatOut = "1.50M"
    /\ formatIn = Dec(FALSE, 999, 0) => formatOut = "999"
    /\ formatIn = Dec(FALSE, 23, 8) => formatOut = "2.30B"
    /\ formatIn.m = 0 => formatOut = "0.00"
    /\ formatIn.m > 0 =>
         LET power == SuffixPower(formatIn)
             f == formatIn.e - power
             e0 == NumDigits(formatIn.m) - 1 + f
         IN \E n \in 100..999, e \in {e0, e0 + 1} :
              /\ NearestThreeDigits(n, e, formatIn.m, f)
              /\ formatOut = (IF formatIn.neg THEN "-" ELSE "")
                               \o PrecisionText(n, e) \o SuffixText(power)

\* C22 witness: a negative number of billions that needed rounding to
\* three digits has been formatted.
C22_Witness == formatIn = Dec(TRUE, 12345, 5) /\ formatOut = "-1.23B"

\* --------------------------------- claims about settings, hover and marks

\* C23: in every quiescent state the scene is drawn in the order of the
\* sort policy of the host's latest settings object: a settings object
\* that changes nothing but the policy is followed by a redraw without any
\* other trigger.
C23_SortPolicyChangeRedraws ==
  Quiescent =>
    /\ scene.drawn
    /\ scene.style = SettingsSortingStyle(settings)
    /\ scene.sortedData = sortData(engine, data, SettingsSortingStyle(settings)).out

\* The policy of a quiescent scene is the one the last run of the render
\* effect copied from the settings into the state and the ref.
RenderedPolicyIsLastEffectsPolicy ==
  Quiescent =>
    /\ scene.drawn
    /\ scene.style = sortingStyle /\ sortingStyle = currentSortingStyle
    /\ scene.sortedData = sortData(engine, data, sortingStyle).out

\* The midpoint of the row-th segment of the scene under the scales it is
\* drawn with.
CurrentMidpoint(sc, row) ==
  LET p == Positions(sc.lines, sc.newXScale, sc.newYScale)[row]
  IN <<Midpoint(p.x2, p.x1), Midpoint(p.y, p.y)>>

\* C24: the tooltip is displayed only while a mark holds the pointer (a
\* mouseout hides it in the same step, and a redraw that replaces the
\* hovered mark does not leave it displayed), it is the tooltip of that
\* mark, and a segment's tooltip is at the segment's midpoint under the
\* scales the scene is drawn with.
C24_TooltipOnlyWhileHovering ==
  tooltip.display =>
    /\ hover # NoHover
    /\ tooltip.class = hover.class /\ tooltip.row = hover.row
    /\ tooltip.class = "hover-line" =>
         /\ tooltip.row \in 1..Len(scene.lines)
         /\ <<tooltip.midpointX, tooltip.midpointY>> = CurrentMidpoint(scene, tooltip.row)

\* While the mark that displayed the tooltip still holds the pointer, the
\* tooltip is that mark's and at the current midpoint.
TooltipOfHoveredMarkIsCurrent ==
  (tooltip.display /\ hover # NoHover) =>
    /\ tooltip.class = hover.class /\ tooltip.row = hover.row
    /\ tooltip.class = "hover-line" =>
         /\ tooltip.row \in 1..Len(scene.lines)
         /\ <<tooltip.midpointX, tooltip.midpointY>> = CurrentMidpoint(scene, tooltip.row)

\* A mouseout hides the tooltip in the same step.
MouseOutHidesTooltip ==
  [][MouseOut => (~tooltip'.display /\ hover' = NoHover)]_vars

\* The category position of the row-th row under the scales the scene is
\* drawn with lies in the last 10 units above height - bottomInset.
InBottomSafetyMargin(sc, row) ==
  LET p == ScaleApply(sc.newYScale, Frac(sc.lines[row].y, 1))
      bottom == sc.height - MarginBottom
  IN /\ p.k = "fin"
     /\ QLeq(Frac(bottom - 10, 1), p)
     /\ QLeq(p, Frac(bottom, 1))

\* C25: a drawn scene holds a segment and two markers for exactly the rows
\* whose category position is not in the bottom safety margin: a row in
\* the margin has no marks.
C25_BottomMarginRowsSkipped ==
  scene.drawn =>
    LET kept == {i \in 1..Len(scene.sortedData) : ~InBottomSafetyMargin(scene, i)}
    IN /\ Len(scene.lines) = Cardinality(kept)
       /\ Len(scene.dotsOne) = Cardinality(kept)
       /\ Len(scene.dotsTwo) = Cardinality(kept)
       /\ \A i \in ElementsOf(scene, "lines-group") \cup ElementsOf(scene, "dots-group") :
            scene.children[i].first = Cardinality(kept)

=============================================================================
